---- MODULE Spec2Model ----
(***************************************************************************)
(* Model of xrmocap/utils/triangulation_utils.py: the input validation,    *)
(* keypoint masking and valid-view statistics used before triangulation.   *)
(*                                                                         *)
(* An ndarray is a record [kind, dtype, shape, data, id]: shape is the     *)
(* tuple of axis lengths, data the elements in row-major (C) order, id the *)
(* identity of the Python object.  Floats that occur are 0.0, 1.0, small   *)
(* integers and NaN; NaN is encoded by the number NaN below and is never   *)
(* equal to 1.0 or 0.0.  A rate count/total is kept as the exact fraction  *)
(* [num, den].                                                             *)
(***************************************************************************)
EXTENDS Integers, Sequences, FiniteSets, TLC

\* ------------------------------------------------------------------ bounds
MaxRank == 3          \* largest rank of an input tensor
MaxDim == 2           \* largest axis length of an input tensor
MaxCells == 4         \* largest n_view * n_point of a statistics mask
MaxConcerned == 3     \* largest concerned_n_view

\* ----------------------------------------------------------- float values
NaN == -1

isnan(x) == x = NaN

\* ---------------------------------------------------------------- tensors
Tensor(kind, dtype, shape, data, id) ==
    [kind |-> kind, dtype |-> dtype, shape |-> shape, data |-> data, id |-> id]

\* Python None, and a value that is neither ndarray, list nor tuple
NoneValue == Tensor("None", "none", <<>>, <<>>, 0)

OtherValue(id) == Tensor("other", "none", <<>>, <<>>, id)

RECURSIVE Size(_)
Size(shape) ==
    IF Len(shape) = 0 THEN 1 ELSE shape[1] * Size(Tail(shape))

Front(shape) == SubSeq(shape, 1, Len(shape) - 1)

Last(shape) == shape[Len(shape)]

\* identities of the argument objects and of the arrays a call allocates
PointsId == 1
MaskId == 2
KeypointsMaskId == 3
AsarrayPointsId == 11
AsarrayMaskId == 12
OnesLikeId == 13

\* variant: only a list is converted, a tuple is left as it is
asarray_ListOnly(x, newId) ==
    IF x.kind = "list"
    THEN Tensor("ndarray", x.dtype, x.shape, x.data, newId)
    ELSE x

\* np.asarray: a list or tuple becomes a new ndarray with the same nesting
\* (shape), element type and elements; an ndarray is returned as it is
asarray(x, newId) ==
    IF x.kind \in {"list", "tuple"}
    THEN Tensor("ndarray", x.dtype, x.shape, x.data, newId)
    ELSE x

\* variant: points[..., 0:2], the first two elements of the last axis
SliceFirst_TwoWide(x) ==
    LET w == IF Last(x.shape) >= 2 THEN 2 ELSE Last(x.shape)
        n == Size(Front(x.shape))
        old == Last(x.shape)
    IN Tensor("ndarray", x.dtype, Front(x.shape) \o <<w>>,
              [i \in 1..(n * w) |->
                  x.data[((i - 1) \div w) * old + ((i - 1) % w) + 1]],
              x.id)

\* points[..., 0:1] : the last axis is cut to its first element (a view)
SliceFirst(x) ==
    LET w == IF Last(x.shape) >= 1 THEN 1 ELSE 0
        n == Size(Front(x.shape))
        old == Last(x.shape)
    IN Tensor("ndarray", x.dtype, Front(x.shape) \o <<w>>,
              [i \in 1..(n * w) |-> x.data[(i - 1) * old + 1]], x.id)

\* variant: the new array keeps the elements of x instead of ones
ones_like_KeepsValues(x, newId) ==
    Tensor("ndarray", x.dtype, x.shape, x.data, newId)

\* variant: the ones are stored into x itself, no array is allocated
ones_like_SharesStorage(x, newId) ==
    Tensor("ndarray", x.dtype, x.shape, [i \in 1..Size(x.shape) |-> 1], x.id)

\* np.ones_like: a new array of the same shape and dtype filled with one
ones_like(x, newId) ==
    Tensor("ndarray", x.dtype, x.shape, [i \in 1..Size(x.shape) |-> 1], newId)

\* ------------------------------------------- prepare_triangulate_input
Raise(exc, err, logged) ==
    [exc |-> exc, err |-> err,
     events |-> IF logged THEN <<"log", "raise">> ELSE <<"raise">>,
     points |-> NoneValue, mask |-> NoneValue]

\* variant: only the two coordinates of the points are returned
Return_DropsExtra(pts, msk) ==
    [exc |-> "None", err |-> "None", events |-> <<"return">>,
     points |->
         IF pts.kind = "ndarray" /\ Len(pts.shape) >= 1 /\ Last(pts.shape) > 2
         THEN Tensor(pts.kind, pts.dtype, Front(pts.shape) \o <<2>>,
                     [i \in 1..(Size(Front(pts.shape)) * 2) |->
                         pts.data[((i - 1) \div 2) * Last(pts.shape)
                                  + ((i - 1) % 2) + 1]],
                     pts.id)
         ELSE pts,
     mask |-> msk]

Return(pts, msk) ==
    [exc |-> "None", err |-> "None", events |-> <<"return">>,
     points |-> pts, mask |-> msk]

\* variant: the mask's last axis is not checked
CheckShapes_NoLastAxis(cam, pts, msk) ==
    IF ~(pts.shape[1] = msk.shape[1] /\ pts.shape[1] = cam)
    THEN Raise("ValueError", "ViewCountMismatch", TRUE)
    ELSE IF Last(pts.shape) < 2
    THEN Raise("ValueError", "CoordWidthTooSmall", TRUE)
    ELSE IF Front(pts.shape) # Front(msk.shape)
    THEN Raise("ValueError", "MaskShapeMismatch", TRUE)
    ELSE Return(pts, msk)

\* variant: the mask's leading shape is not compared with the points'
CheckShapes_NoLeading(cam, pts, msk) ==
    IF ~(pts.shape[1] = msk.shape[1] /\ pts.shape[1] = cam)
    THEN Raise("ValueError", "ViewCountMismatch", TRUE)
    ELSE IF Last(pts.shape) < 2
    THEN Raise("ValueError", "CoordWidthTooSmall", TRUE)
    ELSE IF Last(msk.shape) # 1
    THEN Raise("ValueError", "MaskShapeMismatch", TRUE)
    ELSE Return(pts, msk)

\* variant: the coordinate width is checked before the view count
CheckShapes_WidthFirst(cam, pts, msk) ==
    IF Last(pts.shape) < 2
    THEN Raise("ValueError", "CoordWidthTooSmall", TRUE)
    ELSE IF ~(pts.shape[1] = msk.shape[1] /\ pts.shape[1] = cam)
    THEN Raise("ValueError", "ViewCountMismatch", TRUE)
    ELSE IF Front(pts.shape) # Front(msk.shape) \/ Last(msk.shape) # 1
    THEN Raise("ValueError", "MaskShapeMismatch", TRUE)
    ELSE Return(pts, msk)

\* variant: the view count of the mask is not compared
CheckShapes_PointsOnly(cam, pts, msk) ==
    IF ~(pts.shape[1] = cam)
    THEN Raise("ValueError", "ViewCountMismatch", TRUE)
    ELSE IF Last(pts.shape) < 2
    THEN Raise("ValueError", "CoordWidthTooSmall", TRUE)
    ELSE IF Front(pts.shape) # Front(msk.shape) \/ Last(msk.shape) # 1
    THEN Raise("ValueError", "MaskShapeMismatch", TRUE)
    ELSE Return(pts, msk)

\* the three shape checks, lines 147-167, on ndarrays of rank >= 1
CheckShapes(cam, pts, msk) ==
    IF ~(pts.shape[1] = msk.shape[1] /\ pts.shape[1] = cam)
    THEN Raise("ValueError", "ViewCountMismatch", TRUE)
    ELSE IF Last(pts.shape) < 2
    THEN Raise("ValueError", "CoordWidthTooSmall", TRUE)
    ELSE IF Front(pts.shape) # Front(msk.shape) \/ Last(msk.shape) # 1
    THEN Raise("ValueError", "MaskShapeMismatch", TRUE)
    ELSE Return(pts, msk)

\* variant: the omitted mask is the view points[..., 0:1] itself
PrepareMask_UsesView(pts, mask_arg) ==
    IF mask_arg.kind = "None"
    THEN SliceFirst(pts)
    ELSE asarray(mask_arg, AsarrayMaskId)

\* the synthesized or converted mask, lines 137-140
PrepareMask(pts, mask_arg) ==
    IF mask_arg.kind = "None"
    THEN ones_like(SliceFirst(pts), OnesLikeId)
    ELSE asarray(mask_arg, AsarrayMaskId)

prepare_triangulate_input(cam, points_arg, mask_arg) ==
    LET pts == asarray(points_arg, AsarrayPointsId)
    IN IF pts.kind # "ndarray"
       THEN Raise("TypeError", "InvalidInputPoints", TRUE)
       ELSE IF mask_arg.kind = "None" /\ Len(pts.shape) = 0
       THEN \* points[..., 0:1] on a 0-d array
            Raise("IndexError", "IndexError", FALSE)
       ELSE LET msk == PrepareMask(pts, mask_arg)
            IN IF msk.kind # "ndarray"
               THEN Raise("TypeError", "InvalidInputMask", TRUE)
               ELSE IF Len(pts.shape) = 0 \/ Len(msk.shape) = 0
               THEN \* shape[0] of a 0-d array
                    Raise("IndexError", "IndexError", FALSE)
               ELSE CheckShapes(cam, pts, msk)

\* ------------------------------------------------------------- the inputs
\* the last axis may be one longer than the others, so that points can
\* carry a component beyond the two coordinates
MaxWidth == MaxDim + 1

Shapes ==
    UNION {{s \in [1..r -> 0..MaxWidth] :
               \A a \in 1..(r - 1) : s[a] <= MaxDim} : r \in 0..MaxRank}

\* elements of a points tensor: all different, so that any change shows
Ramp(shape) == [i \in 1..Size(shape) |-> i + 1]

\* elements of a supplied mask: 1.0, 0.0 and NaN in turn
MaskPattern(shape) ==
    [i \in 1..Size(shape) |-> <<1, 0, NaN>>[((i - 1) % 3) + 1]]

ArrayKinds == {"ndarray", "list", "tuple"}

\* a list or a tuple has rank >= 1
KindsOfShape(shape) == IF Len(shape) = 0 THEN {"ndarray"} ELSE ArrayKinds

InputPoints ==
    {Tensor(c[1], d, c[2], Ramp(c[2]), PointsId) :
        c \in {c \in ArrayKinds \X Shapes : c[1] \in KindsOfShape(c[2])},
        d \in {"float", "int"}}
    \cup {OtherValue(PointsId)}

\* shapes of a mask supplied with the points p: the shape the checks accept
\* (the points' leading shape followed by 1), that shape with one axis
\* changed, with the last axis missing or doubled, the points' own shape and
\* the 0-d shape; for points without a first axis, the shapes of rank <= 1
MaskShapesFor(p) ==
    IF p.kind \in ArrayKinds /\ Len(p.shape) >= 1
    THEN LET expected == Front(p.shape) \o <<1>>
         IN {expected, p.shape, Front(p.shape), expected \o <<1>>, <<>>}
            \cup {[expected EXCEPT ![a] = v] :
                     a \in 1..Len(expected), v \in 0..MaxDim}
    ELSE {<<>>} \cup {<<v>> : v \in 0..MaxDim}

InputMasksFor(p) ==
    {Tensor(c[1], "float", c[2], MaskPattern(c[2]), MaskId) :
        c \in {c \in ArrayKinds \X MaskShapesFor(p) :
                  c[1] \in KindsOfShape(c[2])}}
    \cup {OtherValue(MaskId), NoneValue}

\* declared camera numbers: every first-axis length, and one more
CameraNumbers == 0..(MaxDim + 1)

\* no call has been made: nothing raised, logged or returned
NoResult ==
    [exc |-> "None", err |-> "None", events |-> <<>>,
     points |-> NoneValue, mask |-> NoneValue]

\* ------------------------------------------------- parse_keypoints_mask
\* np.where(keypoints_mask == 0)[0], as 0-based indexes
NanIndexes(kmask) == {k \in 0..(Len(kmask.data) - 1) : kmask.data[k + 1] = 0}

\* x.reshape(-1, n1, n2): the unknown axis cannot be inferred when n1*n2 = 0
ReshapeFails(x, n1, n2) == n1 * n2 = 0

Reshape3(x, n1, n2) ==
    Tensor(x.kind, x.dtype, <<Size(x.shape) \div (n1 * n2), n1, n2>>,
           x.data, x.id)

\* x.reshape(*shape) of the same number of elements
ReshapeTo(x, shape) == Tensor(x.kind, x.dtype, shape, x.data, x.id)

\* the elements x[:, indexes, :] of a rank 3 array, as positions in data
Selected(x, indexes) ==
    {(a * x.shape[2] + k) * x.shape[3] + c + 1 :
        a \in 0..(x.shape[1] - 1), k \in indexes, c \in 0..(x.shape[3] - 1)}

\* x[:, indexes, :] = np.nan, in place
AssignNan(x, indexes) ==
    Tensor(x.kind, x.dtype, x.shape,
           [i \in 1..Len(x.data) |->
               IF i \in Selected(x, indexes) THEN NaN ELSE x.data[i]],
           x.id)

\* elements of the argument arg after an in-place write that left the array
\* `written`: they change only if written lies in arg's storage, where
\* written is the view arg[..., 0:1] (or a reshape of it)
WriteBack(arg, written) ==
    IF written.kind = "None" \/ written.id # arg.id
    THEN arg.data
    ELSE [i \in 1..Len(arg.data) |->
             IF (i - 1) % Last(arg.shape) = 0
             THEN written.data[((i - 1) \div Last(arg.shape)) + 1]
             ELSE arg.data[i]]

\* np.nan cannot be stored in an integer array.  When no element is
\* selected the outcome is left to the library: castFails.
AssignNanFails(x, indexes, castFails) ==
    /\ x.dtype = "int"
    /\ (Selected(x, indexes) # {} \/ castFails)

\* lines 206-218, after a successful prepare_triangulate_input
ApplyKeypointsMask(kpts, triangulate_mask, kmask, castFails) ==
    LET init_points_mask_shape == triangulate_mask.shape
        r == Len(init_points_mask_shape)
        n1 == init_points_mask_shape[r - 1]
        n2 == init_points_mask_shape[r]
    IN IF kmask.kind # "ndarray"
       THEN \* None, a list and a tuple have no attribute shape
            Raise("AttributeError", "AttributeError", FALSE)
       ELSE IF kpts.shape[Len(kpts.shape) - 1] # kmask.shape[1]
       THEN Raise("ValueError", "KeypointCountMismatch", TRUE)
       ELSE IF ReshapeFails(triangulate_mask, n1, n2)
       THEN Raise("ValueError", "ReshapeError", FALSE)
       ELSE IF AssignNanFails(Reshape3(triangulate_mask, n1, n2),
                              NanIndexes(kmask), castFails)
       THEN Raise("ValueError", "NanToInteger", FALSE)
       ELSE Return(NoneValue,
                   ReshapeTo(AssignNan(Reshape3(triangulate_mask, n1, n2),
                                       NanIndexes(kmask)),
                             init_points_mask_shape))

\* variant: the keypoint axis is passed as camera_number
parse_keypoints_mask_KeypointAxis(kpts_arg, kmask, castFails) ==
    IF kpts_arg.kind # "ndarray"
    THEN Raise("AttributeError", "AttributeError", FALSE)
    ELSE IF Len(kpts_arg.shape) < 2
    THEN Raise("IndexError", "IndexError", FALSE)
    ELSE LET prepared ==
                 prepare_triangulate_input(
                     kpts_arg.shape[Len(kpts_arg.shape) - 1], kpts_arg,
                     NoneValue)
         IN IF prepared.exc # "None"
            THEN prepared
            ELSE ApplyKeypointsMask(prepared.points, prepared.mask, kmask,
                                    castFails)

\* lines 203-218; camera_number is keypoints.shape[0], line 205
parse_keypoints_mask(kpts_arg, kmask, castFails) ==
    IF kpts_arg.kind # "ndarray"
    THEN \* keypoints.shape of a list, a tuple or another object, line 205
         Raise("AttributeError", "AttributeError", FALSE)
    ELSE IF Len(kpts_arg.shape) = 0
    THEN Raise("IndexError", "IndexError", FALSE)
    ELSE LET prepared ==
                 prepare_triangulate_input(kpts_arg.shape[1], kpts_arg, NoneValue)
         IN IF prepared.exc # "None"
            THEN prepared
            ELSE ApplyKeypointsMask(prepared.points, prepared.mask, kmask,
                                    castFails)

\* keypoints_mask of HumanData: a vector of 0, 1 or another number
KeypointsMaskVals == {0, 1, 2}

\* an ndarray holds any of these values; a list or a tuple, which line 206
\* does not get past, holds 0 or 1
InputKeypointsMasks ==
    {Tensor(k, "int", <<Len(d)>>, d, KeypointsMaskId) :
        k \in {"ndarray"},
        d \in UNION {[1..n -> KeypointsMaskVals] : n \in 0..MaxDim}}
    \cup
    {Tensor(k, "int", <<Len(d)>>, d, KeypointsMaskId) :
        k \in {"list", "tuple"},
        d \in UNION {[1..n -> {0, 1}] : n \in 0..MaxDim}}
    \cup {OtherValue(KeypointsMaskId), NoneValue}

\* ------------------------------------------------ get_valid_views_stats
\* a float count/total as an exact fraction
Frac(n, d) == [num |-> n, den |-> d]

\* variant: concerned_n_view itself is a key
init_valid_views_dict_Inclusive(concerned) ==
    [n_view \in 0..concerned |-> Frac(0, 1)]

init_valid_views_dict(concerned) ==
    [n_view \in 0..(concerned - 1) |-> Frac(0, 1)]

\* points_mask[:, point_index, 0] of a mask of shape [n_view, n_point, 1]
PairData(mask, index) ==
    [view \in 1..mask.shape[1] |->
        mask.data[(view - 1) * mask.shape[2] + index + 1]]

\* variant: a pair is skipped only when all its views are NaN
NanCount_AllViews(pair_data) ==
    IF \A view \in DOMAIN pair_data : isnan(pair_data[view])
    THEN Cardinality(DOMAIN pair_data)
    ELSE 0

\* len(pair_data[np.isnan(pair_data)])
NanCount(pair_data) ==
    Cardinality({view \in DOMAIN pair_data : isnan(pair_data[view])})

\* variant: every non-zero view counts as valid
NValid_Nonzero(pair_data) ==
    Cardinality({view \in DOMAIN pair_data : pair_data[view] # 0})

\* int(np.sum(pair_data == 1.0, axis=0))
NValid(pair_data) ==
    Cardinality({view \in DOMAIN pair_data : pair_data[view] = 1})

\* variant: a pair over the threshold is added to the last bucket
CountPair_Clamp(dict, n_valid) ==
    LET key == IF n_valid \in DOMAIN dict
               THEN n_valid
               ELSE Cardinality(DOMAIN dict) - 1
    IN IF key \in DOMAIN dict
       THEN [dict EXCEPT ![key] = Frac(@.num + 1, @.den)]
       ELSE dict

\* variant: the NaN views of the pair are cleared in the mask (pair_data is
\* a view of points_mask)
MaskAfterIter_ClearsNan(mask, index) ==
    Tensor(mask.kind, mask.dtype, mask.shape,
           [i \in 1..Len(mask.data) |->
               IF (i - 1) % mask.shape[2] = index /\ isnan(mask.data[i])
               THEN 0 ELSE mask.data[i]],
           mask.id)

\* the mask after lines 60-71: pair_data is only read (the boolean index
\* and the comparison build new arrays), nothing is stored into it
MaskAfterIter(mask, index) == mask

\* variant: every bucket up to n_valid is incremented
CountPair_Cumulative(dict, n_valid) ==
    [key \in DOMAIN dict |->
        IF key <= n_valid
        THEN Frac(dict[key].num + 1, dict[key].den)
        ELSE dict[key]]

\* lines 70-71
CountPair(dict, n_valid) ==
    IF n_valid \in DOMAIN dict
    THEN [dict EXCEPT ![n_valid] = Frac(@.num + 1, @.den)]
    ELSE dict

\* variant: the loop's bound is the current value of total_pairs
InRange_CurrentTotal(index, stop, total) == index < total

\* line 59: range(total_pairs) is built once, at loop entry; stop is
\* total_pairs as it was then and later decrements of total_pairs (line 64)
\* do not reach it
InRange(index, stop, total) == index < stop

\* variant: the division is not guarded by total_pairs > 0
RateDict_NoGuard(dict, rate, total) ==
    IF rate
    THEN [key \in DOMAIN dict |-> Frac(dict[key].num, dict[key].den * total)]
    ELSE dict

\* lines 73-76
RateDict(dict, rate, total) ==
    IF rate /\ total > 0
    THEN [key \in DOMAIN dict |-> Frac(dict[key].num, dict[key].den * total)]
    ELSE dict

\* lines 77-81: one row [key, item] per entry of the dict
MakeTable(dict) ==
    [row \in 1..Cardinality(DOMAIN dict) |-> <<row - 1, dict[row - 1]>>]

\* elements of a statistics mask: 1.0, 0.0, NaN and another float (2.0)
MaskVals == {1, 0, NaN, 2}

StatsShapes ==
    {<<v, p, 1>> : v \in 0..MaxCells, p \in 0..MaxCells} \cap
    {s \in (0..MaxCells) \X (0..MaxCells) \X {1} : s[1] * s[2] <= MaxCells}

StatsMasks ==
    UNION {{Tensor("ndarray", "float", s, d, MaskId) :
                d \in [1..(s[1] * s[2]) -> MaskVals]} : s \in StatsShapes}

\* ------------------------------------------------------------------ state
VARIABLES pc, camera_number, points, points_mask, result,
          keypoints, keypoints_mask,
          concerned_n_view, return_rate, range_stop, point_index,
          total_pairs, valid_stats_dict, table, visited,
          args_before

normalizeVars == <<camera_number, points, result>>

statsVars == <<concerned_n_view, return_rate, range_stop, point_index,
               total_pairs, valid_stats_dict, table, visited>>

parseVars == <<keypoints, keypoints_mask>>

vars == <<pc, points_mask, normalizeVars, parseVars, statsVars, args_before>>

NormalizeIdle ==
    /\ camera_number = 0
    /\ points = NoneValue
    /\ result = NoResult

StatsIdle ==
    /\ concerned_n_view = 0
    /\ return_rate = FALSE
    /\ range_stop = 0
    /\ point_index = 0
    /\ total_pairs = 0
    /\ valid_stats_dict = <<>>
    /\ table = <<>>
    /\ visited = <<>>

Init ==
    /\ pc = "idle"
    /\ points_mask = NoneValue
    /\ NormalizeIdle
    /\ keypoints = NoneValue
    /\ keypoints_mask = NoneValue
    /\ StatsIdle
    /\ args_before = <<>>

\* a caller invokes prepare_triangulate_input(camera_number, points, points_mask)
CallNormalize ==
    /\ pc = "idle"
    /\ \E cam \in CameraNumbers, p \in InputPoints :
       \E m \in InputMasksFor(p) :
        /\ camera_number' = cam
        /\ points' = p
        /\ points_mask' = m
        /\ result' = prepare_triangulate_input(cam, p, m)
        /\ args_before' = <<p.data, m.data>>
    /\ pc' = "normalize"
    /\ UNCHANGED <<parseVars, statsVars>>

\* a caller invokes parse_keypoints_mask(keypoints, keypoints_mask).  The
\* function has no camera_number parameter (lines 170-174); camera_number
\* here is the number of cameras the caller's setup has, which the call
\* cannot be told: the number of views of keypoints or one more
CallParse ==
    /\ pc = "idle"
    /\ \E k \in InputPoints, m \in InputKeypointsMasks :
       \E castFails \in IF k.dtype = "int" THEN BOOLEAN ELSE {FALSE} :
        /\ camera_number' \in
               LET n_view == IF Len(k.shape) >= 1 THEN k.shape[1] ELSE 0
               IN {n_view, n_view + 1}
        /\ LET res == parse_keypoints_mask(k, m, castFails)
           IN /\ result' = res
              /\ keypoints' =
                     Tensor(k.kind, k.dtype, k.shape, WriteBack(k, res.mask),
                            k.id)
              /\ keypoints_mask' =
                     Tensor(m.kind, m.dtype, m.shape, WriteBack(m, res.mask),
                            m.id)
        /\ args_before' = <<k.data, m.data>>
    /\ pc' = "parse"
    /\ UNCHANGED <<points, points_mask, statsVars>>

\* get_valid_views_stats(points_mask, concerned_n_view, return_rate) is
\* entered: lines 56-59, the dict is created and the range of the loop fixed
StatsEnter ==
    /\ pc = "idle"
    /\ \E m \in StatsMasks, c \in 0..MaxConcerned, r \in BOOLEAN :
        /\ points_mask' = m
        /\ concerned_n_view' = c
        /\ return_rate' = r
        /\ valid_stats_dict' = init_valid_views_dict(c)
        /\ total_pairs' = m.shape[2]
        /\ range_stop' = m.shape[2]
        /\ args_before' = <<m.data>>
    /\ point_index' = 0
    /\ visited' = <<>>
    /\ table' = <<>>
    /\ pc' = "stats_loop"
    /\ UNCHANGED <<normalizeVars, parseVars>>

\* one iteration of the loop, lines 59-71
StatsIter ==
    /\ pc = "stats_loop"
    /\ InRange(point_index, range_stop, total_pairs)
    /\ LET pair_data == PairData(points_mask, point_index)
       IN IF NanCount(pair_data) > 0
          THEN /\ total_pairs' = total_pairs - 1
               /\ UNCHANGED valid_stats_dict
          ELSE /\ valid_stats_dict' =
                      CountPair(valid_stats_dict, NValid(pair_data))
               /\ UNCHANGED total_pairs
    /\ points_mask' = MaskAfterIter(points_mask, point_index)
    /\ visited' = Append(visited, point_index)
    /\ point_index' = point_index + 1
    /\ UNCHANGED <<pc, normalizeVars, parseVars, concerned_n_view,
                   return_rate, range_stop, table, args_before>>

\* the loop is exhausted: lines 72-82, the rates and the table
StatsReturn ==
    /\ pc = "stats_loop"
    /\ ~InRange(point_index, range_stop, total_pairs)
    /\ valid_stats_dict' = RateDict(valid_stats_dict, return_rate, total_pairs)
    /\ table' = MakeTable(valid_stats_dict')
    /\ pc' = "stats"
    /\ UNCHANGED <<points_mask, normalizeVars, parseVars, concerned_n_view,
                   return_rate, range_stop, point_index, total_pairs,
                   visited, args_before>>

\* the caller drops the transient tensors and results
Reset ==
    /\ pc \in {"normalize", "parse", "stats"}
    /\ pc' = "idle"
    /\ points_mask' = NoneValue
    /\ camera_number' = 0
    /\ points' = NoneValue
    /\ result' = NoResult
    /\ keypoints' = NoneValue
    /\ keypoints_mask' = NoneValue
    /\ args_before' = <<>>
    /\ concerned_n_view' = 0
    /\ return_rate' = FALSE
    /\ range_stop' = 0
    /\ point_index' = 0
    /\ total_pairs' = 0
    /\ valid_stats_dict' = <<>>
    /\ table' = <<>>
    /\ visited' = <<>>

Next == CallNormalize \/ CallParse \/ StatsEnter \/ StatsIter \/ StatsReturn \/ Reset

Spec == Init /\ [][Next]_vars

\* one call of get_valid_views_stats, from entry to return
StatsNext == StatsEnter \/ StatsIter \/ StatsReturn

\* a call that has entered the counting loop keeps running: the interpreter
\* executes the next iteration, and the statements after the loop, whenever
\* they are the next thing to do
StatsSpec == Init /\ [][StatsNext]_vars

LiveSpec ==
    /\ StatsSpec
    /\ WF_vars(StatsIter)
    /\ WF_vars(StatsReturn)

\* ======================================================= properties
\* The arguments as the shape checks of prepare_triangulate_input see them.
PointsIsArray == points.kind \in ArrayKinds

MaskSupplied == points_mask.kind \in ArrayKinds

MaskOmitted == points_mask.kind = "None"

\* shape of points_mask at line 148: the supplied one, or that of the
\* synthesized mask (the points' shape with the last axis cut to one element)
MaskShapeSeen ==
    IF MaskSupplied
    THEN points_mask.shape
    ELSE Front(points.shape) \o
         <<IF points.shape[Len(points.shape)] = 0 THEN 0 ELSE 1>>

\* both arguments pass the type checks and have a first axis
ReachesShapeChecks ==
    /\ pc = "normalize"
    /\ PointsIsArray
    /\ MaskSupplied \/ MaskOmitted
    /\ Len(points.shape) >= 1
    /\ MaskSupplied => Len(points_mask.shape) >= 1

ViewCountViolated ==
    ~(/\ points.shape[1] = MaskShapeSeen[1]
      /\ points.shape[1] = camera_number)

CoordWidthViolated == points.shape[Len(points.shape)] < 2

MaskShapeViolated ==
    \/ SubSeq(points.shape, 1, Len(points.shape) - 1) #
           SubSeq(MaskShapeSeen, 1, Len(MaskShapeSeen) - 1)
    \/ MaskShapeSeen[Len(MaskShapeSeen)] # 1

Succeeded == result.exc = "None"

\* C1: whenever prepare_triangulate_input returns without error, the
\* returned arrays satisfy all three shape invariants at once: first axis of
\* points and of mask equal camera_number, points' last axis is at least 2,
\* and the mask's shape is the points' leading shape followed by 1.
C1_ShapeInvariantsOnSuccess ==
    (pc = "normalize" /\ Succeeded) =>
        /\ result.points.kind = "ndarray"
        /\ result.mask.kind = "ndarray"
        /\ Len(result.points.shape) >= 1
        /\ Len(result.mask.shape) >= 1
        /\ result.points.shape[1] = camera_number
        /\ result.mask.shape[1] = camera_number
        /\ result.points.shape[Len(result.points.shape)] >= 2
        /\ result.mask.shape =
               SubSeq(result.points.shape, 1, Len(result.points.shape) - 1)
               \o <<1>>

\* a successful call with a supplied mask on points of rank 3
C1_Witness ==
    /\ pc = "normalize"
    /\ Succeeded
    /\ MaskSupplied
    /\ Len(points.shape) = 3
    /\ camera_number = 2

\* the valid-view number of every point of the statistics mask, from the
\* mask's elements
MaskElem(view, index) ==
    points_mask.data[(view - 1) * points_mask.shape[2] + index + 1]

NViews == points_mask.shape[1]

NPoints == points_mask.shape[2]

HasNanView(index) == \E view \in 1..NViews : MaskElem(view, index) = NaN

NanPairs == {index \in 0..(NPoints - 1) : HasNanView(index)}

KeptPairs == (0..(NPoints - 1)) \ NanPairs

ValidViews(index) ==
    Cardinality({view \in 1..NViews : MaskElem(view, index) = 1})

PairsWith(n_valid) == {index \in KeptPairs : ValidViews(index) = n_valid}

PairsAtLeast(n_valid) == {index \in KeptPairs : ValidViews(index) >= n_valid}

\* a/b = c/d for fractions with positive denominators
FracEq(f, n, d) == f.num * d = n * f.den

RECURSIVE SumNum(_, _)
SumNum(dict, keys) ==
    IF keys = {} THEN 0
    ELSE LET k == CHOOSE k \in keys : TRUE
         IN dict[k].num + SumNum(dict, keys \ {k})

\* C2: for every keypoints array of shape [n_view, ..., n_keypoints, d]
\* (rank >= 3, d >= 2) and every keypoints_mask of length n_keypoints,
\* parse_keypoints_mask returns a mask of shape keypoints.shape[:-1] + (1,)
\* whose element at (view, ..., k, 0) is NaN when keypoints_mask[k] = 0 and
\* 1.0 otherwise.  Stated for keypoints arrays that hold at least one element.
RECURSIVE FlatIndex(_, _)
FlatIndex(shape, idx) ==
    IF Len(shape) = 0 THEN 0
    ELSE idx[Len(shape)] +
         shape[Len(shape)] *
             FlatIndex(SubSeq(shape, 1, Len(shape) - 1),
                       SubSeq(idx, 1, Len(shape) - 1))

MultiIndexes(shape) ==
    {idx \in [1..Len(shape) -> 0..(MaxDim + 1)] :
        \A a \in 1..Len(shape) : idx[a] < shape[a]}

C2_Case ==
    /\ pc = "parse"
    /\ keypoints.kind = "ndarray"
    /\ Len(keypoints.shape) >= 3
    /\ keypoints.shape[Len(keypoints.shape)] >= 2
    /\ Size(keypoints.shape) > 0
    /\ keypoints_mask.kind = "ndarray"
    /\ keypoints_mask.shape = <<keypoints.shape[Len(keypoints.shape) - 1]>>

C2_MaskIsNanExactlyAtInvalidKeypoints ==
    C2_Case =>
        /\ Succeeded
        /\ result.mask.shape =
               SubSeq(keypoints.shape, 1, Len(keypoints.shape) - 1) \o <<1>>
        /\ \A idx \in MultiIndexes(result.mask.shape) :
               result.mask.data[FlatIndex(result.mask.shape, idx) + 1] =
                   IF keypoints_mask.data[idx[Len(idx) - 1] + 1] = 0
                   THEN NaN ELSE 1

\* C3: a point with NaN in any view is added to no bucket and is removed
\* from the denominator: every bucket is the number of NaN-free points with
\* that many valid views, in rate mode divided by n_point minus the number
\* of points having a NaN view.
C3_NanPairsExcluded ==
    pc = "stats" =>
        /\ total_pairs = NPoints - Cardinality(NanPairs)
        /\ \A key \in DOMAIN valid_stats_dict :
               IF return_rate /\ NPoints - Cardinality(NanPairs) > 0
               THEN FracEq(valid_stats_dict[key],
                           Cardinality(PairsWith(key)),
                           NPoints - Cardinality(NanPairs))
               ELSE FracEq(valid_stats_dict[key],
                           Cardinality(PairsWith(key)), 1)

\* rate mode, a point with NaN in one view and 1.0 in another, and a kept
\* point that is counted
C3_Witness ==
    /\ pc = "stats"
    /\ return_rate
    /\ \E index \in NanPairs :
           \E view \in 1..NViews : MaskElem(view, index) = 1
    /\ \E key \in DOMAIN valid_stats_dict : PairsWith(key) # {}

C6_CountedWhenNoGreater ==
    (pc = "stats" /\ ~return_rate) =>
        SumNum(valid_stats_dict, DOMAIN valid_stats_dict) =
            Cardinality({index \in KeptPairs :
                            ValidViews(index) <= concerned_n_view})

\* C7: the shape checks are applied in the order view count, coordinate
\* width, mask shape, and the first violated one is the one reported.
C7_ChecksInOrder ==
    ReachesShapeChecks =>
        /\ ViewCountViolated => result.err = "ViewCountMismatch"
        /\ (~ViewCountViolated /\ CoordWidthViolated) =>
               result.err = "CoordWidthTooSmall"
        /\ (~ViewCountViolated /\ ~CoordWidthViolated /\ MaskShapeViolated) =>
               result.err = "MaskShapeMismatch"

\* an input violating all three checks at once
C7_Witness ==
    /\ ReachesShapeChecks
    /\ MaskSupplied
    /\ ViewCountViolated
    /\ CoordWidthViolated
    /\ MaskShapeViolated
    /\ result.err = "ViewCountMismatch"

\* C8: ViewCountMismatch is raised exactly when points.shape[0],
\* points_mask.shape[0] and camera_number are not all equal; when they are
\* equal, points.shape[-1] < 2 always gives CoordWidthTooSmall.
C8_ViewCountExactly ==
    pc = "normalize" =>
        /\ result.err = "ViewCountMismatch" <=>
               (ReachesShapeChecks /\ ViewCountViolated)
        /\ (ReachesShapeChecks /\ ~ViewCountViolated /\ CoordWidthViolated) =>
               result.err = "CoordWidthTooSmall"

\* a supplied mask whose first axis differs from that of points, which
\* itself matches camera_number
C8_Witness ==
    /\ ReachesShapeChecks
    /\ MaskSupplied
    /\ points.shape[1] = camera_number
    /\ points_mask.shape[1] # points.shape[1]
    /\ ~CoordWidthViolated
    /\ result.err = "ViewCountMismatch"

\* C9: when the first two checks pass, every supplied mask whose leading
\* shape (rank included) differs from the points' or whose last axis is not 1
\* is rejected with MaskShapeMismatch and no mask is returned; a mask that is
\* returned is the supplied one, shape unchanged.
C9_MaskNeverCoerced ==
    (ReachesShapeChecks /\ MaskSupplied
        /\ ~ViewCountViolated /\ ~CoordWidthViolated) =>
        /\ MaskShapeViolated =>
               /\ result.err = "MaskShapeMismatch"
               /\ result.exc = "ValueError"
               /\ result.mask = NoneValue
        /\ Succeeded => result.mask.shape = points_mask.shape

\* a supplied mask of another rank than the points' leading shape
C9_Witness ==
    /\ ReachesShapeChecks
    /\ MaskSupplied
    /\ ~ViewCountViolated
    /\ ~CoordWidthViolated
    /\ Len(points_mask.shape) # Len(points.shape)
    /\ result.err = "MaskShapeMismatch"

\* C10: with points_mask omitted and validation passing, the returned mask
\* has shape points.shape[:-1] + (1,) and every element is 1.0, for points
\* of any rank >= 2.
C10_DefaultMaskAllOnes ==
    (pc = "normalize" /\ MaskOmitted /\ Succeeded) =>
        /\ Len(points.shape) >= 2
        /\ result.mask.shape =
               SubSeq(points.shape, 1, Len(points.shape) - 1) \o <<1>>
        /\ Len(result.mask.data) = Size(result.mask.shape)
        /\ \A i \in 1..Len(result.mask.data) : result.mask.data[i] = 1

\* an omitted mask on non-empty points of rank 3
C10_Witness ==
    /\ pc = "normalize"
    /\ MaskOmitted
    /\ Succeeded
    /\ Len(points.shape) = 3
    /\ Size(points.shape) > 0

\* C11: prepare_triangulate_input raises TypeError (InvalidInput) when
\* points is neither ndarray, list nor tuple and when a supplied points_mask
\* is neither; a list or tuple is never rejected by the type checks; the
\* type checks are decided before every shape check, and an invalid points
\* is reported before an invalid mask.
PointsIsOther == points.kind = "other"

MaskIsOther == points_mask.kind = "other"

C11_TypeChecksFirst ==
    pc = "normalize" =>
        /\ PointsIsOther =>
               /\ result.exc = "TypeError"
               /\ result.err = "InvalidInputPoints"
        /\ (PointsIsArray /\ MaskIsOther) =>
               /\ result.exc = "TypeError"
               /\ result.err = "InvalidInputMask"
        /\ result.exc = "TypeError" => (PointsIsOther \/ MaskIsOther)
        /\ result.err = "InvalidInputPoints" <=> PointsIsOther
        /\ result.err = "InvalidInputMask" <=> (PointsIsArray /\ MaskIsOther)

\* a tuple of points whose shape violates the view count, with a mask that
\* is not an array: the mask's type is what is reported
C11_Witness ==
    /\ pc = "normalize"
    /\ points.kind = "tuple"
    /\ Len(points.shape) >= 2
    /\ points.shape[1] # camera_number
    /\ MaskIsOther
    /\ result.err = "InvalidInputMask"

\* C12: parse_keypoints_mask fails with KeypointCountMismatch whenever the
\* second-to-last axis of keypoints differs in length from keypoints_mask,
\* and returns no mask then.  Stated for keypoints that pass
\* prepare_triangulate_input and a keypoints_mask given as ndarray, list or
\* tuple.
KeypointsPrepared ==
    /\ keypoints.kind = "ndarray"
    /\ Len(keypoints.shape) >= 2
    /\ keypoints.shape[Len(keypoints.shape)] >= 2

C12_KeypointCountMismatch ==
    (/\ pc = "parse"
     /\ KeypointsPrepared
     /\ keypoints_mask.kind \in ArrayKinds
     /\ keypoints.shape[Len(keypoints.shape) - 1] # Len(keypoints_mask.data))
    =>
        /\ result.exc = "ValueError"
        /\ result.err = "KeypointCountMismatch"
        /\ result.mask = NoneValue

\* C13: parse_keypoints_mask raises nothing but KeypointCountMismatch and
\* the failures of prepare_triangulate_input, for keypoints given as ndarray,
\* list or tuple of any numeric element type and keypoints_mask given or
\* left at its default.
DeclaredErrors ==
    {"KeypointCountMismatch", "InvalidInputPoints", "InvalidInputMask",
     "ViewCountMismatch", "CoordWidthTooSmall", "MaskShapeMismatch"}

C13_OnlyDeclaredFailures ==
    (/\ pc = "parse"
     /\ keypoints.kind \in ArrayKinds
     /\ Len(keypoints.shape) >= 1
     /\ keypoints_mask.kind \in ArrayKinds \cup {"None"})
    =>
        \/ Succeeded
        \/ result.err \in DeclaredErrors

\* C14: in rate mode, when total_pairs is 0 after the exclusions (no point,
\* or every point has a NaN view) nothing is divided, the call does not fail
\* and every bucket is 0.0.
C14_NoDivisionByZero ==
    (pc = "stats" /\ return_rate /\ KeptPairs = {}) =>
        /\ total_pairs = 0
        /\ \A key \in DOMAIN valid_stats_dict :
               valid_stats_dict[key] = Frac(0, 1)
        /\ \A row \in 1..Len(table) : table[row][2] = Frac(0, 1)

\* rate mode, every point has a NaN view, and there are buckets
C14_Witness ==
    /\ pc = "stats"
    /\ return_rate
    /\ NPoints >= 2
    /\ NanPairs = 0..(NPoints - 1)
    /\ concerned_n_view >= 2

C16_Case ==
    \/ /\ pc = "normalize"
       /\ PointsIsArray /\ Len(points.shape) >= 1
       /\ \/ MaskOmitted
          \/ MaskSupplied /\ Len(points_mask.shape) >= 1
    \/ /\ pc = "parse"
       /\ keypoints.kind \in ArrayKinds /\ Len(keypoints.shape) >= 1
       /\ keypoints_mask.kind \in ArrayKinds \cup {"None"}

C16_LogBeforeRaise ==
    C16_Case =>
        IF Succeeded
        THEN result.events = <<"return">>
        ELSE result.events = <<"log", "raise">>

\* C17: no returned tensor is the same object as, or shares storage with,
\* an argument tensor.
ArgumentIds == {PointsId, MaskId, KeypointsMaskId}

C17_FreshOutputs ==
    (pc \in {"normalize", "parse"} /\ Succeeded) =>
        /\ result.points.id \notin ArgumentIds
        /\ result.mask.id \notin ArgumentIds

\* C17 as amended: prepare_triangulate_input returns an argument that is
\* already an ndarray as the same object, and a new array for a list, a tuple
\* and the omitted mask; the mask parse_keypoints_mask returns is a new
\* array.
C17_FreshUnlessNdarray ==
    /\ (pc = "normalize" /\ Succeeded) =>
           /\ result.points.id =
                  IF points.kind = "ndarray" THEN PointsId
                  ELSE AsarrayPointsId
           /\ result.mask.id =
                  IF points_mask.kind = "ndarray" THEN MaskId
                  ELSE IF MaskOmitted THEN OnesLikeId
                  ELSE AsarrayMaskId
    /\ (pc = "parse" /\ Succeeded) =>
           /\ result.points = NoneValue
           /\ result.mask.id = OnesLikeId
    /\ {AsarrayPointsId, AsarrayMaskId, OnesLikeId} \cap ArgumentIds = {}

\* an ndarray of points returned with an omitted mask
C17_Witness ==
    /\ pc = "normalize"
    /\ Succeeded
    /\ points.kind = "ndarray"
    /\ MaskOmitted
    /\ result.points.id = PointsId
    /\ result.mask.id = OnesLikeId

\* C18: on success the returned points have the shape and the elements of
\* the points argument, trailing components included, and a supplied mask
\* is returned with its shape and elements.
C18_IdentityOnData ==
    (pc = "normalize" /\ Succeeded) =>
        /\ result.points.shape = points.shape
        /\ result.points.data = points.data
        /\ result.points.dtype = points.dtype
        /\ MaskSupplied =>
               /\ result.mask.shape = points_mask.shape
               /\ result.mask.data = points_mask.data

\* a list of non-empty points with a third component and a supplied mask
C18_Witness ==
    /\ pc = "normalize"
    /\ Succeeded
    /\ points.kind = "list"
    /\ MaskSupplied
    /\ points.shape[Len(points.shape)] = 3
    /\ Size(points.shape) > 0

\* C19: parse_keypoints_mask leaves keypoints and keypoints_mask as they
\* were, whether it succeeds or fails; the NaN are stored only into the mask
\* synthesized inside the call.
C19_ArgumentsUnchanged ==
    pc = "parse" =>
        /\ keypoints.data = args_before[1]
        /\ keypoints_mask.data = args_before[2]
        /\ Succeeded => result.mask.id \notin {keypoints.id, keypoints_mask.id}

\* a successful call that stored a NaN
C19_Witness ==
    /\ pc = "parse"
    /\ Succeeded
    /\ \E i \in 1..Len(result.mask.data) : result.mask.data[i] = NaN
    /\ Size(keypoints.shape) >= 4

\* C20: get_valid_views_stats leaves every element of its mask, NaN and 0.0
\* included, as it was, in both modes.
C20_MaskUnchanged ==
    pc \in {"stats_loop", "stats"} => points_mask.data = args_before[1]

\* a finished call on a mask holding NaN and 0.0
C20_Witness ==
    /\ pc = "stats"
    /\ \E i \in 1..Len(points_mask.data) : points_mask.data[i] = NaN
    /\ \E i \in 1..Len(points_mask.data) : points_mask.data[i] = 0
    /\ Len(visited) = NPoints

\* the raw histogram of a whole mask, folded over the points from index on
\* with the loop body of lines 60-71
RECURSIVE RawHistogram(_, _, _)
RawHistogram(mask, dict, index) ==
    IF index >= mask.shape[2]
    THEN dict
    ELSE RawHistogram(mask,
                      IF NanCount(PairData(mask, index)) > 0
                      THEN dict
                      ELSE CountPair(dict, NValid(PairData(mask, index))),
                      index + 1)

\* a [3, 4, 1] mask of ones except that point 2 is [1, 0, 1] over the views
ExampleMask ==
    Tensor("ndarray", "float", <<3, 4, 1>>,
           [i \in 1..12 |-> IF i = 7 THEN 0 ELSE 1], MaskId)

\* C21: each point without a NaN view adds exactly 1 to the bucket n_valid,
\* the number of its views equal to 1.0 (0.0 and other values do not count),
\* when n_valid < concerned_n_view, changes no other bucket and none at all
\* otherwise, and stays in total_pairs.  The [3, 4, 1] example gives raw
\* buckets 0, 1, 2 = 0, 0, 1 for concerned_n_view = 3.
C21_PointStep ==
    (/\ pc = "stats_loop"
     /\ point_index' = point_index + 1
     /\ ~HasNanView(point_index))
    =>
        /\ total_pairs' = total_pairs
        /\ DOMAIN valid_stats_dict' = DOMAIN valid_stats_dict
        /\ \A key \in DOMAIN valid_stats_dict :
               /\ valid_stats_dict'[key].den = valid_stats_dict[key].den
               /\ valid_stats_dict'[key].num =
                      valid_stats_dict[key].num +
                      (IF key = ValidViews(point_index) THEN 1 ELSE 0)

C22_NormalizeFirst ==
    pc = "parse" =>
        /\ (/\ keypoints.kind \in ArrayKinds
            /\ Len(keypoints.shape) >= 2
            /\ Size(keypoints.shape) > 0
            /\ keypoints.shape[Len(keypoints.shape)] < 2
            /\ keypoints_mask.kind = "ndarray")
           => result.err = "CoordWidthTooSmall"
        /\ ~Succeeded => result.mask = NoneValue

\* C23: parse_keypoints_mask rejects with ViewCountMismatch keypoints whose
\* first axis differs from the number of cameras the caller has.  Stated for
\* non-empty float ndarray keypoints of rank >= 2 with at least two
\* coordinates and an ndarray keypoints_mask of matching length.
C23_DeclaredCameraCount ==
    (/\ pc = "parse"
     /\ KeypointsPrepared
     /\ keypoints.dtype = "float"
     /\ Size(keypoints.shape) > 0
     /\ keypoints_mask.kind = "ndarray"
     /\ Len(keypoints_mask.data) = keypoints.shape[Len(keypoints.shape) - 1]
     /\ keypoints.shape[1] # camera_number)
    => result.err = "ViewCountMismatch"

\* C23 as amended: parse_keypoints_mask takes no camera count and checks
\* keypoints against their own first axis; keypoints with any number of
\* views are accepted, and ViewCountMismatch is raised only for keypoints of
\* rank 1 and length >= 2, whose synthesized mask has first axis 1.
C23_OwnViewAxis ==
    pc = "parse" =>
        /\ result.err = "ViewCountMismatch" <=>
               /\ keypoints.kind = "ndarray"
               /\ Len(keypoints.shape) = 1
               /\ keypoints.shape[1] >= 2
        /\ (/\ KeypointsPrepared
            /\ keypoints.dtype = "float"
            /\ Size(keypoints.shape) > 0
            /\ keypoints_mask.kind = "ndarray"
            /\ Len(keypoints_mask.data) =
                   keypoints.shape[Len(keypoints.shape) - 1])
           => Succeeded

\* a mask returned for keypoints of two views to a caller with one or three
\* cameras
C23_Witness ==
    /\ pc = "parse"
    /\ Succeeded
    /\ keypoints.shape[1] = 2
    /\ camera_number = 3
    /\ \E i \in 1..Len(result.mask.data) : result.mask.data[i] = 1

\* C24: the counting loop visits every point index 0..n_point-1 once, in
\* order, and then ends; its bound is n_point as fixed at loop entry, however
\* often total_pairs is decremented, so no point after a NaN pair is skipped.
C24_LoopBound ==
    /\ range_stop = NPoints
    /\ point_index <= NPoints
    /\ visited = [i \in 1..point_index |-> i - 1]
    /\ total_pairs = NPoints - Cardinality({i \in NanPairs : i < point_index})

C24_EveryPointOnce ==
    /\ [](pc \in {"stats_loop", "stats"} => C24_LoopBound)
    /\ [](pc = "stats" => visited = [i \in 1..NPoints |-> i - 1])
    /\ (pc = "stats_loop") ~> (pc = "stats")

\* a finished call whose first point was excluded and was followed by others
C24_Witness ==
    /\ pc = "stats"
    /\ NPoints >= 3
    /\ 0 \in NanPairs
    /\ NPoints - 1 \in KeptPairs
    /\ total_pairs < NPoints
    /\ Len(visited) = NPoints

\* C25: with points_mask omitted and points of rank >= 1 (or not an array at
\* all), prepare_triangulate_input never fails with MaskShapeMismatch: it
\* succeeds or fails with InvalidInput for points, ViewCountMismatch or
\* CoordWidthTooSmall; whenever the width check passes the synthesized mask
\* has the points' leading shape and last axis 1.
C25_Case ==
    /\ pc = "normalize"
    /\ MaskOmitted
    /\ PointsIsOther \/ (PointsIsArray /\ Len(points.shape) >= 1)

C25_NoMaskShapeMismatch ==
    C25_Case =>
        /\ result.err \in {"None", "InvalidInputPoints", "ViewCountMismatch",
                           "CoordWidthTooSmall"}
        /\ (/\ PointsIsArray
            /\ ~ViewCountViolated
            /\ ~CoordWidthViolated)
           => /\ Succeeded
              /\ result.mask.shape = Front(points.shape) \o <<1>>

\* the mask-shape check evaluated, and passed, on a synthesized mask for a
\* tuple of three-component points
C25_Witness ==
    /\ C25_Case
    /\ points.kind = "tuple"
    /\ Len(points.shape) = 2
    /\ points.shape[2] = 3
    /\ Succeeded

====
